---------------------------- MODULE Spec2Model ----------------------------
(***************************************************************************)
(* A model of cesride's Verfer (src/core/verfer.rs): a public key tagged   *)
(* with a derivation code, built through the Matter codec from one of      *)
(* three encodings, and verifying Ed25519 / ECDSA-secp256k1 signatures.    *)
(*                                                                         *)
(* Bytes are integers 0..255, byte strings are sequences of bytes, text    *)
(* is a sequence of ASCII codes.  Derivation codes are strings.            *)
(***************************************************************************)
EXTENDS Integers, Sequences, FiniteSets, TLC

VARIABLES code, raw, size, out, sig, ser, inp, built, busy, memo

vars == <<code, raw, size, out, sig, ser, inp, built, busy, memo>>

(***************************************************************************)
(* Bounds of the model.                                                    *)
(***************************************************************************)
NKeys == 2        \* keypairs per algorithm family
MaxMsgLen == 2    \* the signed messages are 1..MaxMsgLen bytes long
NCallers == 2     \* callers sharing the instance for verify

(***************************************************************************)
(* Byte and bit helpers.                                                   *)
(***************************************************************************)
Pow2(n) == 2 ^ n

\* bit b (0 = least significant) of byte x
Bit(x, b) == (x \div Pow2(b)) % 2

\* byte x with bit b flipped
FlipBit(x, b) == IF Bit(x, b) = 1 THEN x - Pow2(b) ELSE x + Pow2(b)

\* byte string s with bit (n % 8) of byte (n \div 8 + 1) flipped, n in 0..8*Len(s)-1
FlipAt(s, n) ==
  [i \in 1..Len(s) |-> IF i = n \div 8 + 1 THEN FlipBit(s[i], n % 8) ELSE s[i]]

Zeros(n) == [i \in 1..n |-> 0]

Take(s, n) == SubSeq(s, 1, n)

Drop(s, n) == SubSeq(s, n + 1, Len(s))

(***************************************************************************)
(* The derivation codes (matter::Codex) the model knows.  The first four   *)
(* are the verifier codes; Blake3_256 is a digest code of the global       *)
(* table; UnknownCode is in no table.                                      *)
(***************************************************************************)
Ed25519N == "B"
Ed25519 == "D"
ECDSA_256k1N == "1AAA"
ECDSA_256k1 == "1AAB"
Blake3_256 == "E"
UnknownCode == "1zzz"

AllCodes == {Ed25519N, Ed25519, ECDSA_256k1N, ECDSA_256k1, Blake3_256, UnknownCode}

\* the text of a code, as ASCII
CodeText(c) ==
  CASE c = "B" -> <<66>>
    [] c = "D" -> <<68>>
    [] c = "E" -> <<69>>
    [] c = "1AAA" -> <<49, 65, 65, 65>>
    [] c = "1AAB" -> <<49, 65, 65, 66>>
    [] c = "1zzz" -> <<49, 122, 122, 122>>


(***************************************************************************)
(* Results.  A constructor returns a Verfer or an error; verify returns a  *)
(* boolean or an error.                                                    *)
(***************************************************************************)
NoVerfer == [code |-> "", raw |-> <<>>, size |-> 0]

Ok(v) == [tag |-> "Ok", err |-> "", v |-> v]

Err(e) == [tag |-> "Err", err |-> e, v |-> NoVerfer]

\* alg names the signature primitive that produced the result, if any
OkBool(b, alg) == [tag |-> "Ok", err |-> "", val |-> b, alg |-> alg]

ErrBool(e, alg) == [tag |-> "Err", err |-> e, val |-> FALSE, alg |-> alg]

(***************************************************************************)
(* The Matter codec (crate::core::matter).  It owns the global table of    *)
(* codes and converts between (code, raw) and the three encodings:         *)
(* qb64 (text), qb64b (the bytes of that text) and qb2 (packed binary).    *)
(***************************************************************************)
KnownCodes == {Ed25519N, Ed25519, ECDSA_256k1N, ECDSA_256k1, Blake3_256}

\* hard size (length of the code) and full size of the qb64 of a known code
Sizage(c) ==
  IF c \in {ECDSA_256k1N, ECDSA_256k1} THEN [hs |-> 4, fs |-> 48]
  ELSE [hs |-> 1, fs |-> 44]

\* the length of the raw bytes a known code stands for
RawSize(c) == ((Sizage(c).fs - Sizage(c).hs) * 3) \div 4

\* the URL-safe base64 alphabet: sextet -> ASCII
B64Char(s) ==
  IF s < 26 THEN 65 + s
  ELSE IF s < 52 THEN 97 + (s - 26)
  ELSE IF s < 62 THEN 48 + (s - 52)
  ELSE IF s = 62 THEN 45
  ELSE 95

\* ASCII -> sextet, -1 for a character outside the alphabet
B64Index(ch) ==
  IF ch >= 65 /\ ch <= 90 THEN ch - 65
  ELSE IF ch >= 97 /\ ch <= 122 THEN ch - 97 + 26
  ELSE IF ch >= 48 /\ ch <= 57 THEN ch - 48 + 52
  ELSE IF ch = 45 THEN 62
  ELSE IF ch = 95 THEN 63
  ELSE -1

\* 3n bytes -> 4n sextets
B64Sextets(b) ==
  [i \in 1..((Len(b) \div 3) * 4) |->
     LET g == 3 * ((i - 1) \div 4)
         k == (i - 1) % 4
     IN CASE k = 0 -> b[g + 1] \div 4
          [] k = 1 -> (b[g + 1] % 4) * 16 + b[g + 2] \div 16
          [] k = 2 -> (b[g + 2] % 16) * 4 + b[g + 3] \div 64
          [] k = 3 -> b[g + 3] % 64]

\* 4n sextets -> 3n bytes
B64Bytes(x) ==
  [i \in 1..((Len(x) \div 4) * 3) |->
     LET g == 4 * ((i - 1) \div 3)
         k == (i - 1) % 3
     IN CASE k = 0 -> x[g + 1] * 4 + x[g + 2] \div 16
          [] k = 1 -> (x[g + 2] % 16) * 16 + x[g + 3] \div 4
          [] k = 2 -> (x[g + 3] % 4) * 64 + x[g + 4]]

B64Encode(b) ==
  LET x == B64Sextets(b)
  IN [i \in 1..((Len(b) \div 3) * 4) |-> B64Char(x[i])]

\* text -> sextets
B64Indices(t) == [i \in 1..Len(t) |-> B64Index(t[i])]

\* the number of code characters a code starting with this character has,
\* 0 for a character that starts no primitive code
Hardage(ch) ==
  IF (ch >= 65 /\ ch <= 90) \/ (ch >= 97 /\ ch <= 122) THEN 1
  ELSE IF ch \in {48, 52, 53, 54} THEN 2
  ELSE IF ch \in {49, 50, 51, 55, 56, 57} THEN 4
  ELSE 0

\* Matter::new_with_code_and_raw: package raw under a known code
Matter_new_with_code_and_raw(c, r) ==
  IF c \notin KnownCodes THEN Err("DecodeError")
  ELSE IF Len(r) # RawSize(c) THEN Err("RawLengthError")
  ELSE Ok([code |-> c, raw |-> r, size |-> 0])

\* Matter::qb64: the code, then the base64 of the zero-padded raw bytes
\* with the pad characters dropped
qb64(v) ==
  LET ps == (3 - (Len(v.raw) % 3)) % 3
  IN CodeText(v.code) \o Drop(B64Encode(Zeros(ps) \o v.raw), ps)

\* Matter::qb64b: the bytes of the qb64 text
qb64b(v) == qb64(v)

\* Matter::qb2: the qb64 text, base64-decoded
qb2(v) == B64Bytes(B64Indices(qb64(v)))

\* Matter::new_with_qb64 (exfil): parse the code, check the length, decode
Matter_new_with_qb64(t) ==
  IF Len(t) = 0 THEN Err("DecodeError")
  ELSE LET hs == Hardage(t[1])
       IN IF hs = 0 \/ Len(t) < hs THEN Err("DecodeError")
          ELSE LET hit == {c \in KnownCodes : CodeText(c) = Take(t, hs)}
               IN IF hit = {} THEN Err("DecodeError")
                  ELSE LET c == CHOOSE x \in hit : TRUE
                           ps == hs % 4
                           body == Drop(t, hs)
                       IN IF Len(t) # Sizage(c).fs THEN Err("DecodeError")
                          ELSE IF \E i \in 1..Len(body) : B64Index(body[i]) < 0
                            THEN Err("DecodeError")
                          ELSE LET paw == B64Bytes(Zeros(ps) \o B64Indices(body))
                               IN IF Take(paw, ps) # Zeros(ps)
                                    THEN Err("DecodeError")
                                  ELSE Ok([code |-> c, raw |-> Drop(paw, ps),
                                           size |-> 0])

\* Matter::new_with_qb64b: the bytes must be text, then as new_with_qb64
Matter_new_with_qb64b(b) ==
  IF \E i \in 1..Len(b) : b[i] >= 128 THEN Err("DecodeError")
  ELSE Matter_new_with_qb64(b)

\* Matter::new_with_qb2 (bexfil): read the code from the leading sextet,
\* check the length, then decode the base64 text of the bytes
Matter_new_with_qb2(b) ==
  IF Len(b) = 0 THEN Err("DecodeError")
  ELSE LET hs == Hardage(B64Char(b[1] \div 4))
       IN IF hs = 0 \/ Len(b) % 3 # 0 THEN Err("DecodeError")
          ELSE Matter_new_with_qb64(B64Encode(b))

(***************************************************************************)
(* The signature primitives (ed25519_dalek, k256).  What they parse is     *)
(* modelled byte for byte; the curve arithmetic is idealised: keypair k    *)
(* has one public key per family, signing is a deterministic function of   *)
(* (k, message) that is injective in the message, and a signature verifies *)
(* exactly when it is the one the holder of the key produces.  Which byte  *)
(* strings decompress to a curve point is fixed by a stand-in predicate    *)
(* that the generated public keys satisfy and some other strings do not.   *)
(***************************************************************************)
PUBLIC_KEY_LENGTH == 32
SIGNATURE_LENGTH == 64
SEC1_COMPRESSED_LENGTH == 33
SEC1_UNCOMPRESSED_LENGTH == 65

Keys == 1..NKeys

\* the message, zero-padded to n - 1 bytes, then its length: injective on
\* messages shorter than n - 1 bytes
Digest(m, n) ==
  [i \in 1..n |-> IF i = n THEN Len(m) ELSE IF i <= Len(m) THEN m[i] ELSE 0]

\* the Ed25519 public key of keypair k
EdPublic(k) == [i \in 1..PUBLIC_KEY_LENGTH |-> (7 * k + 13 * i) % 256]

\* ed25519_dalek::PublicKey::from_bytes succeeds: 32 bytes that decompress
PublicKey_from_bytes(b) ==
  /\ Len(b) = PUBLIC_KEY_LENGTH
  /\ (b[1] + b[2]) % 2 = 1

\* ed25519_dalek::Signature::from_bytes succeeds: 64 bytes, the three high
\* bits of the scalar s (the last byte) unset
Signature_from_bytes(b) ==
  /\ Len(b) = SIGNATURE_LENGTH
  /\ b[SIGNATURE_LENGTH] \div 32 = 0

\* Keypair::sign: R || s
EdSign(k, m) ==
  [i \in 1..SIGNATURE_LENGTH |->
     IF i <= 32 THEN (EdPublic(k)[i] + Digest(m, 32)[i]) % 256
     ELSE IF i < SIGNATURE_LENGTH THEN (k + i) % 256
     ELSE k % 16]

\* PublicKey::verify succeeds
Ed25519Verify(pk, m, s) == \E k \in Keys : pk = EdPublic(k) /\ s = EdSign(k, m)

\* the SEC1-compressed secp256k1 public key of keypair k
EcPublic(k) ==
  [i \in 1..SEC1_COMPRESSED_LENGTH |->
     IF i = 1 THEN 2 + (k % 2) ELSE (11 * k + 17 * (i - 1)) % 256]

\* k256 VerifyingKey::from_sec1_bytes succeeds: a tagged point of the
\* length its tag announces, on the curve
VerifyingKey_from_sec1_bytes(b) ==
  /\ \/ Len(b) = SEC1_COMPRESSED_LENGTH /\ b[1] \in {2, 3}
     \/ Len(b) = SEC1_UNCOMPRESSED_LENGTH /\ b[1] = 4
  /\ (b[2] + b[3]) % 2 = 1

\* the order n of the secp256k1 group, big-endian
SECP256K1_ORDER ==
  <<255, 255, 255, 255, 255, 255, 255, 255, 255, 255, 255, 255, 255, 255, 255, 254,
    186, 174, 220, 230, 175, 72, 160, 59, 191, 210, 94, 140, 208, 54, 65, 65>>

\* a 32-byte big-endian scalar is in 1..n-1
ScalarInRange(x) ==
  /\ \E i \in 1..32 : x[i] # 0
  /\ \E i \in 1..32 : /\ x[i] < SECP256K1_ORDER[i]
                      /\ \A j \in 1..(i - 1) : x[j] = SECP256K1_ORDER[j]

\* k256 Signature::try_from succeeds: 64 bytes, r and s both in 1..n-1
Signature_try_from(b) ==
  /\ Len(b) = SIGNATURE_LENGTH
  /\ ScalarInRange(Take(b, 32))
  /\ ScalarInRange(Drop(b, 32))

\* SigningKey::sign: r || s
EcSign(k, m) ==
  [i \in 1..SIGNATURE_LENGTH |->
     IF i <= 32 THEN 1 + (EcPublic(k)[i + 1] % 200)
     ELSE IF i = 33 THEN 1
     ELSE (Digest(m, 31)[i - 33] + k) % 256]

\* VerifyingKey::verify succeeds
EcdsaVerify(pk, m, s) == \E k \in Keys : pk = EcPublic(k) /\ s = EcSign(k, m)

(***************************************************************************)
(* Verfer.                                                                 *)
(***************************************************************************)
\* the allow-list of validate_code
CODES == {Ed25519N, Ed25519, ECDSA_256k1N, ECDSA_256k1}

\* Verfer::default()
Default == [code |-> Ed25519, raw |-> <<>>, size |-> 0]

\* validate_code(code) is Ok(())
\* validate_code with the digest code left on the allow-list
validate_code_digest(c) == c \in CODES \cup {Blake3_256}

validate_code(c) == c \in CODES

Verfer_new_with_code_and_raw(c, r) ==
  IF ~validate_code(c) THEN Err("UnexpectedCode")
  ELSE Matter_new_with_code_and_raw(c, r)

\* the three decoding constructors: decode, then validate the decoded code
\* a decoding constructor that does not validate the decoded code
Validated_unchecked(m) == m

\* a decoding constructor that validates against the transferable codes only
Validated_transferable(m) ==
  IF m.tag = "Err" THEN m
  ELSE IF m.v.code \notin {Ed25519, ECDSA_256k1} THEN Err("UnexpectedCode")
  ELSE m

Validated(m) ==
  IF m.tag = "Err" THEN m
  ELSE IF ~validate_code(m.v.code) THEN Err("UnexpectedCode")
  ELSE m

Verfer_new_with_qb64(t) == Validated(Matter_new_with_qb64(t))

Verfer_new_with_qb64b(b) == Validated(Matter_new_with_qb64b(b))

Verfer_new_with_qb2(b) == Validated(Matter_new_with_qb2(b))

\* verify_ed25519_signature without Signature::from_bytes
verify_ed25519_signature_unparsed(self, s, m) ==
  IF ~PublicKey_from_bytes(self.raw) THEN ErrBool("AlgorithmInputError", "ed25519")
  ELSE IF Ed25519Verify(self.raw, m, s) THEN OkBool(TRUE, "ed25519")
  ELSE OkBool(FALSE, "ed25519")

\* verify_ed25519_signature without PublicKey::from_bytes
verify_ed25519_signature_nokey(self, s, m) ==
  IF ~Signature_from_bytes(s) THEN ErrBool("AlgorithmInputError", "ed25519")
  ELSE IF Ed25519Verify(self.raw, m, s) THEN OkBool(TRUE, "ed25519")
  ELSE OkBool(FALSE, "ed25519")

verify_ed25519_signature(self, s, m) ==
  IF ~PublicKey_from_bytes(self.raw) THEN ErrBool("AlgorithmInputError", "ed25519")
  ELSE IF ~Signature_from_bytes(s) THEN ErrBool("AlgorithmInputError", "ed25519")
  ELSE IF Ed25519Verify(self.raw, m, s) THEN OkBool(TRUE, "ed25519")
  ELSE OkBool(FALSE, "ed25519")

\* verify_ecdsa_256k1_signature returning the library's error for a
\* signature that does not verify
verify_ecdsa_256k1_signature_strict(self, s, m) ==
  IF ~VerifyingKey_from_sec1_bytes(self.raw) THEN ErrBool("AlgorithmInputError", "ecdsa")
  ELSE IF ~Signature_try_from(s) THEN ErrBool("AlgorithmInputError", "ecdsa")
  ELSE IF EcdsaVerify(self.raw, m, s) THEN OkBool(TRUE, "ecdsa")
  ELSE ErrBool("AlgorithmInputError", "ecdsa")

verify_ecdsa_256k1_signature(self, s, m) ==
  IF ~VerifyingKey_from_sec1_bytes(self.raw) THEN ErrBool("AlgorithmInputError", "ecdsa")
  ELSE IF ~Signature_try_from(s) THEN ErrBool("AlgorithmInputError", "ecdsa")
  ELSE IF EcdsaVerify(self.raw, m, s) THEN OkBool(TRUE, "ecdsa")
  ELSE OkBool(FALSE, "ecdsa")

\* matter::Codex::from_code(code) is Ok: the code is in the global table
Codex_from_code(c) == c \in KnownCodes

\* verify sending the non-transferable Ed25519 code to the ECDSA primitive
verify_retagged(self, s, m) ==
  IF ~Codex_from_code(self.code) THEN ErrBool("UnexpectedCode", "none")
  ELSE CASE self.code = Ed25519N -> verify_ecdsa_256k1_signature(self, s, m)
         [] self.code = Ed25519 -> verify_ed25519_signature(self, s, m)
         [] self.code = ECDSA_256k1N -> verify_ecdsa_256k1_signature(self, s, m)
         [] self.code = ECDSA_256k1 -> verify_ecdsa_256k1_signature(self, s, m)
         [] OTHER -> ErrBool("UnexpectedCode", "none")

\* verify whose last arm falls through to the Ed25519 primitive
verify_fallthrough(self, s, m) ==
  IF ~Codex_from_code(self.code) THEN ErrBool("UnexpectedCode", "none")
  ELSE CASE self.code = Ed25519N -> verify_ed25519_signature(self, s, m)
         [] self.code = Ed25519 -> verify_ed25519_signature(self, s, m)
         [] self.code = ECDSA_256k1N -> verify_ecdsa_256k1_signature(self, s, m)
         [] self.code = ECDSA_256k1 -> verify_ecdsa_256k1_signature(self, s, m)
         [] OTHER -> verify_ed25519_signature(self, s, m)

\* verify consulting the size field
verify_sized(self, s, m) ==
  IF ~Codex_from_code(self.code) THEN ErrBool("UnexpectedCode", "none")
  ELSE IF self.size # 0 THEN ErrBool("AlgorithmInputError", "none")
  ELSE CASE self.code = Ed25519N -> verify_ed25519_signature(self, s, m)
         [] self.code = Ed25519 -> verify_ed25519_signature(self, s, m)
         [] self.code = ECDSA_256k1N -> verify_ecdsa_256k1_signature(self, s, m)
         [] self.code = ECDSA_256k1 -> verify_ecdsa_256k1_signature(self, s, m)
         [] OTHER -> ErrBool("UnexpectedCode", "none")

verify(self, s, m) ==
  IF ~Codex_from_code(self.code) THEN ErrBool("UnexpectedCode", "none")
  ELSE CASE self.code = Ed25519N -> verify_ed25519_signature(self, s, m)
         [] self.code = Ed25519 -> verify_ed25519_signature(self, s, m)
         [] self.code = ECDSA_256k1N -> verify_ecdsa_256k1_signature(self, s, m)
         [] self.code = ECDSA_256k1 -> verify_ecdsa_256k1_signature(self, s, m)
         [] OTHER -> ErrBool("UnexpectedCode", "none")

(***************************************************************************)
(* The inputs the operations are called with.                              *)
(***************************************************************************)
\* one message of each length 0..MaxMsgLen
Msg(n) == [i \in 1..n |-> (85 * i) % 256]

Msgs == {Msg(n) : n \in 0..MaxMsgLen}

\* 32 bytes that are no Ed25519 point, and a point nobody holds the key of
JunkKey == [i \in 1..PUBLIC_KEY_LENGTH |-> 2]

StrangerKey == [i \in 1..PUBLIC_KEY_LENGTH |-> i]

RawInputs ==
  {EdPublic(k) : k \in Keys} \cup {EcPublic(k) : k \in Keys}
    \cup {<<>>, JunkKey, StrangerKey, Take(EdPublic(1), 31)}

\* the raw bytes the encodings under code c are made of
EncodedRaw(c) == IF Len(CodeText(c)) = 1 THEN EdPublic(1) ELSE EcPublic(1)

\* a text encoding, damaged in the way d names
Damaged(t, d) ==
  CASE d = "ok" -> t
    [] d = "short" -> Take(t, Len(t) - 1)
    [] d = "badchar" -> [t EXCEPT ![Len(t)] = 33]
    [] d = "nonascii" -> [t EXCEPT ![Len(t)] = 200]
    [] d = "padbits" -> [t EXCEPT ![2] = 95]

\* a binary encoding, damaged in the way d names
DamagedBytes(b, d) ==
  CASE d = "ok" -> b
    [] d = "short" -> Take(b, Len(b) - 1)
    [] d = "padbits" -> [b EXCEPT ![1] = 4 * (b[1] \div 4) + 3]

\* the encodings handed to the decoding constructors: which code they
\* carry and how they are damaged ("padbits" needs a code with pad bits)
Encodings(kinds) ==
  {x \in [code : AllCodes, kind : kinds] :
     x.kind = "padbits" => Len(CodeText(x.code)) = 1}

Plain(x) == [code |-> x.code, raw |-> EncodedRaw(x.code), size |-> 0]

Given(x) == [kind |-> x.kind, code |-> x.code, n |-> 0, was |-> NoVerfer]

\* every call of a constructor the model makes, with its result
CallsWithCodeAndRaw ==
  {[given |-> [kind |-> "ok", code |-> c, n |-> 0, was |-> NoVerfer],
    res |-> Verfer_new_with_code_and_raw(c, r)] : c \in AllCodes, r \in RawInputs}

CallsWithQb64 ==
  {[given |-> Given(x),
    res |-> Verfer_new_with_qb64(Damaged(qb64(Plain(x)), x.kind))] :
      x \in Encodings({"ok", "short", "badchar", "padbits"})}

CallsWithQb64b ==
  {[given |-> Given(x),
    res |-> Verfer_new_with_qb64b(Damaged(qb64b(Plain(x)), x.kind))] :
      x \in Encodings({"ok", "short", "nonascii", "padbits"})}

CallsWithQb2 ==
  {[given |-> Given(x),
    res |-> Verfer_new_with_qb2(DamagedBytes(qb2(Plain(x)), x.kind))] :
      x \in Encodings({"ok", "short", "padbits"})}

\* the arguments of verify: the signatures of the longest message, an
\* empty and an all-zero signature; that message and the empty one
SigInputs ==
  {EdSign(k, Msg(MaxMsgLen)) : k \in Keys} \cup {EcSign(k, Msg(MaxMsgLen)) : k \in Keys}
    \cup {<<>>, Zeros(SIGNATURE_LENGTH)}

SerInputs == {Msg(MaxMsgLen), Msg(0)}

(***************************************************************************)
(* The state: one Verfer (code, raw, size), the result of the last         *)
(* operation (out), the arguments of the last verify (sig, ser), and       *)
(* history the properties read: what the last operation was given (inp),   *)
(* the code a constructor gave the instance while raw is still the         *)
(* constructor's (built, "" otherwise), the verify calls in progress       *)
(* (busy) and one earlier verify call (memo).                              *)
(***************************************************************************)
Callers == 1..NCallers

Self == [code |-> code, raw |-> raw, size |-> size]

Idle == [on |-> FALSE, sig |-> <<>>, ser |-> <<>>]

NoMemo == [set |-> FALSE, code |-> "", raw |-> <<>>, size |-> 0, sig |-> <<>>,
           ser |-> <<>>, res |-> ErrBool("", "none")]

NoInput == [kind |-> "", code |-> "", n |-> 0, was |-> NoVerfer]

Unit(op) == [op |-> op, tag |-> "Ok", err |-> "", val |-> FALSE, alg |-> "none"]

Made(op, r) == [op |-> op, tag |-> r.tag, err |-> r.err, val |-> FALSE, alg |-> "none"]

Verified(r) == [op |-> "verify", tag |-> r.tag, err |-> r.err, val |-> r.val, alg |-> r.alg]

Init ==
  /\ code = Default.code
  /\ raw = Default.raw
  /\ size = Default.size
  /\ out = Unit("default")
  /\ sig = <<>>
  /\ ser = <<>>
  /\ inp = NoInput
  /\ built = ""
  /\ busy = [c \in Callers |-> Idle]
  /\ memo = NoMemo

\* the caller binds the constructor's result: a new instance, or an error
\* that leaves the instance it had
Construct(op, r, given) ==
  /\ out' = Made(op, r)
  /\ inp' = given
  /\ sig' = <<>>
  /\ ser' = <<>>
  /\ IF r.tag = "Ok"
       THEN /\ code' = r.v.code
            /\ raw' = r.v.raw
            /\ size' = r.v.size
            /\ built' = r.v.code
       ELSE UNCHANGED <<code, raw, size, built>>
  /\ UNCHANGED <<busy, memo>>

DefaultOp ==
  /\ code' = Default.code
  /\ raw' = Default.raw
  /\ size' = Default.size
  /\ out' = Unit("default")
  /\ built' = ""
  /\ sig' = <<>>
  /\ ser' = <<>>
  /\ inp' = NoInput
  /\ UNCHANGED <<busy, memo>>

NewWithCodeAndRaw ==
  \E x \in CallsWithCodeAndRaw : Construct("new_with_code_and_raw", x.res, x.given)

NewWithQb64 ==
  \E x \in CallsWithQb64 : Construct("new_with_qb64", x.res, x.given)

NewWithQb64b ==
  \E x \in CallsWithQb64b : Construct("new_with_qb64b", x.res, x.given)

NewWithQb2 ==
  \E x \in CallsWithQb2 : Construct("new_with_qb2", x.res, x.given)

\* the instance can be encoded: a known code over raw bytes of its length
Encodable == code \in KnownCodes /\ Len(raw) = RawSize(code)

\* encode the instance and construct from the encoding; inp keeps the
\* instance that was encoded
Reencode ==
  /\ Encodable
  /\ \/ Construct("new_with_qb64", Verfer_new_with_qb64(qb64(Self)),
                  [kind |-> "reencoded", code |-> code, n |-> 0, was |-> Self])
     \/ Construct("new_with_qb64b", Verfer_new_with_qb64b(qb64b(Self)),
                  [kind |-> "reencoded", code |-> code, n |-> 0, was |-> Self])
     \/ Construct("new_with_qb2", Verfer_new_with_qb2(qb2(Self)),
                  [kind |-> "reencoded", code |-> code, n |-> 0, was |-> Self])

\* Matter::set_code: stores the code as given; inp keeps the code replaced
SetCodeTo(codes) ==
  \E c \in codes :
    /\ \A k \in Callers : ~busy[k].on
    /\ code' = c
    /\ out' = Unit("set_code")
    /\ inp' = [kind |-> "", code |-> code, n |-> 0, was |-> Self]
    /\ sig' = <<>>
    /\ ser' = <<>>
    /\ UNCHANGED <<raw, size, built, busy, memo>>

SetRawTo(raws) ==
  \E r \in raws :
    /\ \A k \in Callers : ~busy[k].on
    /\ raw' = r
    /\ built' = ""
    /\ out' = Unit("set_raw")
    /\ inp' = NoInput
    /\ sig' = <<>>
    /\ ser' = <<>>
    /\ UNCHANGED <<code, size, busy, memo>>

SetSize ==
  \E n \in 0..1 :
    /\ \A k \in Callers : ~busy[k].on
    /\ size' = n
    /\ out' = Unit("set_size")
    /\ inp' = NoInput
    /\ sig' = <<>>
    /\ ser' = <<>>
    /\ UNCHANGED <<code, raw, built, busy, memo>>

\* verify(&self, sig, ser), start to end
Verify ==
  \E s \in SigInputs, m \in SerInputs :
    /\ out' = Verified(verify(Self, s, m))
    /\ sig' = s
    /\ ser' = m
    /\ inp' = NoInput
    /\ UNCHANGED <<code, raw, size, built, busy, memo>>

Next ==
  \/ DefaultOp
  \/ NewWithCodeAndRaw
  \/ NewWithQb64
  \/ NewWithQb64b
  \/ NewWithQb2
  \/ Reencode
  \/ SetCodeTo(AllCodes)
  \/ SetRawTo(RawInputs)
  \/ SetSize
  \/ Verify

Spec == Init /\ [][Next]_vars

(***************************************************************************)
(* Signing and verifying.  The instance holds the public key of a          *)
(* keypair under a code of the key's family; the holder of the keypair     *)
(* signs a message, and verify is called with the signature and the        *)
(* message, as signed or changed.  The caller takes each result (Return)   *)
(* before the next call.                                                   *)
(***************************************************************************)
Ed25519Codes == {Ed25519N, Ed25519}

EcdsaCodes == {ECDSA_256k1N, ECDSA_256k1}

Family(c) ==
  IF c \in Ed25519Codes THEN "ed25519"
  ELSE IF c \in EcdsaCodes THEN "ecdsa"
  ELSE "none"

Public(c, k) == IF c \in Ed25519Codes THEN EdPublic(k) ELSE EcPublic(k)

\* the signature of m by keypair k in family f
Sign(f, k, m) == IF f = "ed25519" THEN EdSign(k, m) ELSE EcSign(k, m)

\* a call of verify: the signature of a message by keypair k of family f,
\* and the message, as signed or changed in the way kind and n name
Call(f, k, kind, n, s, m) ==
  [fam |-> f, k |-> k, kind |-> kind, n |-> n, sig |-> s, ser |-> m]

Signings == {"ed25519", "ecdsa"} \X Keys \X Msgs

\* the signature and the message as signed
SignedCalls ==
  {Call(x[1], x[2], "signed", 0, Sign(x[1], x[2], x[3]), x[3]) : x \in Signings}

\* one bit of the signature flipped
SigFlippedCalls ==
  {Call(x[1], x[2], "sigflip", n, FlipAt(Sign(x[1], x[2], x[3]), n), x[3]) :
     x \in Signings, n \in 0..(8 * SIGNATURE_LENGTH - 1)}

\* one bit of the message flipped
MsgFlippedCalls ==
  UNION {{Call(x[1], x[2], "msgflip", n, Sign(x[1], x[2], x[3]), FlipAt(x[3], n)) :
            n \in 0..(8 * Len(x[3]) - 1)} : x \in Signings}

\* the signature cut to its first n bytes
SigShortCalls ==
  {Call(x[1], x[2], "sigshort", n, Take(Sign(x[1], x[2], x[3]), n), x[3]) :
     x \in Signings, n \in 0..(SIGNATURE_LENGTH - 1)}

\* the message cut to its first n bytes
MsgShortCalls ==
  UNION {{Call(x[1], x[2], "msgshort", n, Sign(x[1], x[2], x[3]), Take(x[3], n)) :
            n \in 0..(Len(x[3]) - 1)} : x \in Signings}

\* another keypair's signature of the message, the keypair's signature of
\* another message, and the all-zero signature
OtherSigCalls ==
  UNION {{Call(x[1], x[2], "othersig", 0, Sign(x[1], k, x[3]), x[3]) : k \in Keys \ {x[2]}}
           \cup {Call(x[1], x[2], "othersig", 0, Sign(x[1], x[2], m), x[3]) : m \in Msgs \ {x[3]}}
           \cup {Call(x[1], x[2], "othersig", 0, Zeros(SIGNATURE_LENGTH), x[3])} :
         x \in Signings}

InitSign ==
  \E c \in CODES, k \in Keys :
    LET r == Verfer_new_with_code_and_raw(c, Public(c, k))
    IN /\ r.tag = "Ok"
       /\ code = r.v.code
       /\ raw = r.v.raw
       /\ size = r.v.size
       /\ built = r.v.code
       /\ out = Made("new_with_code_and_raw", r)
       /\ sig = <<>>
       /\ ser = <<>>
       /\ inp = NoInput
       /\ busy = [x \in Callers |-> Idle]
       /\ memo = NoMemo

\* verify is called as x says, on the instance that holds the public key
\* of x's keypair
VerifyCall(x) ==
  /\ x.fam = Family(built)
  /\ raw = Public(built, x.k)
  /\ out' = Verified(verify(Self, x.sig, x.ser))
  /\ sig' = x.sig
  /\ ser' = x.ser
  /\ inp' = [kind |-> x.kind, code |-> "", n |-> x.n, was |-> NoVerfer]
  /\ UNCHANGED <<code, raw, size, built, busy, memo>>

VerifySigned == out.op # "verify" /\ \E x \in SignedCalls : VerifyCall(x)

VerifySigFlipped == out.op # "verify" /\ \E x \in SigFlippedCalls : VerifyCall(x)

VerifyMsgFlipped == out.op # "verify" /\ \E x \in MsgFlippedCalls : VerifyCall(x)

VerifySigShort == out.op # "verify" /\ \E x \in SigShortCalls : VerifyCall(x)

VerifyMsgShort == out.op # "verify" /\ \E x \in MsgShortCalls : VerifyCall(x)

VerifyOtherSig == out.op # "verify" /\ \E x \in OtherSigCalls : VerifyCall(x)

\* set_code to the other code of the key's family
Retag ==
  /\ out.op # "verify"
  /\ SetCodeTo({c \in CODES : Family(c) = Family(code)} \ {code})

\* the caller takes the result of verify
Return ==
  /\ out.op = "verify"
  /\ out' = Unit("idle")
  /\ sig' = <<>>
  /\ ser' = <<>>
  /\ inp' = NoInput
  /\ UNCHANGED <<code, raw, size, built, busy, memo>>

NextSign ==
  \/ VerifySigned
  \/ VerifySigFlipped
  \/ VerifyMsgFlipped
  \/ VerifySigShort
  \/ VerifyMsgShort
  \/ VerifyOtherSig
  \/ Retag
  \/ Return

SpecSign == InitSign /\ [][NextSign]_vars

(***************************************************************************)
(* Sharing.  verify takes &self, so several callers may be inside verify   *)
(* on the one instance at a time; the setters take &mut self, so they run  *)
(* only while no caller is.  A call begins by taking its arguments and     *)
(* ends by returning its result; memo keeps an earlier call, its instance  *)
(* and its result.                                                         *)
(***************************************************************************)
SharedSigs == {EdSign(1, Msg(MaxMsgLen)), <<>>}

SharedSers == {Msg(MaxMsgLen)}

Begin(c) ==
  /\ ~busy[c].on
  /\ \E s \in SharedSigs, m \in SharedSers :
       busy' = [busy EXCEPT ![c] = [on |-> TRUE, sig |-> s, ser |-> m]]
  /\ UNCHANGED <<code, raw, size, out, sig, ser, inp, built, memo>>

End(c) ==
  /\ busy[c].on
  /\ LET r == verify(Self, busy[c].sig, busy[c].ser)
     IN /\ out' = Verified(r)
        /\ sig' = busy[c].sig
        /\ ser' = busy[c].ser
        /\ inp' = NoInput
        /\ busy' = [busy EXCEPT ![c] = Idle]
        /\ \/ UNCHANGED memo
           \/ memo' = [set |-> TRUE, code |-> code, raw |-> raw, size |-> size,
                       sig |-> busy[c].sig, ser |-> busy[c].ser, res |-> r]
  /\ UNCHANGED <<code, raw, size, built>>

NextShared ==
  \/ \E c \in Callers : Begin(c)
  \/ \E c \in Callers : End(c)
  \/ SetCodeTo({Ed25519, ECDSA_256k1, Blake3_256})
  \/ SetRawTo({EdPublic(1), JunkKey})
  \/ SetSize

SpecShared == Init /\ [][NextShared]_vars

(***************************************************************************)
(* Properties.                                                             *)
(***************************************************************************)
Constructors == {"new_with_code_and_raw", "new_with_qb64", "new_with_qb64b", "new_with_qb2"}

Decoders == {"new_with_qb64", "new_with_qb64b", "new_with_qb2"}

IsOk(b) == out.tag = "Ok" /\ out.val = b

IsErr == out.tag = "Err"

\* C1: in every reachable state the code of the instance is one of the
\* four allow-listed codes.
C1_CodeAllowListed == code \in CODES

\* a constructor was called with a code, or an encoding carrying a code,
\* outside the allow-list
OutsideGiven == out.op \in Constructors /\ inp.code \notin CODES

\* C2 as stated: for a code outside the allow-list every construction path
\* returns UnexpectedCode, whatever the raw bytes or the encoding.
C2_AlwaysUnexpectedCode == OutsideGiven => out.tag = "Err" /\ out.err = "UnexpectedCode"

\* C2 as amended: for a code outside the allow-list every construction path
\* returns an error: new_with_code_and_raw always UnexpectedCode; a decoding
\* constructor UnexpectedCode when the encoding is well-formed and its code
\* is in the global table, and the codec's decode error otherwise.
C2_ErrorByPath ==
  OutsideGiven =>
    /\ out.tag = "Err"
    /\ out.err = IF \/ out.op = "new_with_code_and_raw"
                    \/ inp.kind \in {"ok", "reencoded"} /\ inp.code \in KnownCodes
                   THEN "UnexpectedCode"
                   ELSE "DecodeError"

C2_Witness ==
  /\ out.op = "new_with_qb2"
  /\ inp.code = Blake3_256
  /\ inp.kind = "ok"
  /\ out.err = "UnexpectedCode"

\* C5: a construction path that returns a Verfer returns one whose code is
\* allow-listed and whose raw has the length of that code's keys (32 for
\* Ed25519, 33 for ECDSA-secp256k1); otherwise it returns a code-validation
\* or codec error.
C5_Constructed ==
  out.op \in Constructors =>
    IF out.tag = "Ok"
      THEN /\ code \in CODES
           /\ built = code
           /\ Len(raw) = IF code \in Ed25519Codes THEN 32 ELSE 33
      ELSE out.err \in {"UnexpectedCode", "DecodeError", "RawLengthError"}

C5_Witness ==
  /\ out.op = "new_with_qb64b"
  /\ out.tag = "Ok"
  /\ code = ECDSA_256k1
  /\ Len(raw) = 33

\* C6: set_code between the two codes of one algorithm family leaves the
\* result of verify unchanged, for every signature and message.
C6_RetagPreserves ==
  [][(out'.op = "set_code" /\ Family(code) # "none" /\ Family(code') = Family(code))
       => \A s \in SigInputs, m \in SerInputs :
            verify(Self, s, m) = verify(Self', s, m)]_vars

C6_Witness ==
  /\ out.op = "verify"
  /\ IsOk(TRUE)
  /\ built \in CODES
  /\ code # built
  /\ Family(code) = Family(built)

\* C7: a Verfer made by new_with_code_and_raw from an allow-listed code and
\* a raw key of its length encodes to qb64, qb64b and qb2, and constructing
\* from each encoding succeeds with the same code, raw and size.
C7_RoundTrip ==
  /\ (out.op = "new_with_code_and_raw" /\ out.tag = "Ok") =>
       /\ Encodable
       /\ Verfer_new_with_qb64(qb64(Self)) = Ok(Self)
       /\ Verfer_new_with_qb64b(qb64b(Self)) = Ok(Self)
       /\ Verfer_new_with_qb2(qb2(Self)) = Ok(Self)
  /\ (/\ out.op \in Decoders
      /\ inp.kind = "reencoded"
      /\ Verfer_new_with_code_and_raw(inp.was.code, inp.was.raw) = Ok(inp.was)) =>
       /\ out.tag = "Ok"
       /\ Self = inp.was

C7_Witness ==
  /\ out.op = "new_with_qb2"
  /\ inp.kind = "reencoded"
  /\ out.tag = "Ok"
  /\ code = ECDSA_256k1N
  /\ Self = inp.was

\* C8: verify goes by the current code alone: the Ed25519 codes to the
\* Ed25519 primitive, the ECDSA codes to the ECDSA primitive, and any other
\* code to the error UnexpectedCode, with neither primitive called.
C8_Dispatch ==
  out.op = "verify" =>
    CASE code \in Ed25519Codes -> out.alg = "ed25519"
      [] code \in EcdsaCodes -> out.alg = "ecdsa"
      [] OTHER -> IsErr /\ out.err = "UnexpectedCode" /\ out.alg = "none"

C8_Witness ==
  /\ out.op = "verify"
  /\ code = Blake3_256
  /\ Len(raw) = PUBLIC_KEY_LENGTH
  /\ Len(sig) = SIGNATURE_LENGTH
  /\ out.err = "UnexpectedCode"

\* C10: after set_code takes a constructed Verfer to a code of the other
\* family, raw and size are as they were and every verify returns an error,
\* for as long as the code stays in the other family.
C10_CrossFamily ==
  (built # "" /\ Family(code) \notin {"none", Family(built)}) =>
    /\ Len(raw) = RawSize(built)
    /\ out.op = "verify" => IsErr /\ out.err = "AlgorithmInputError"
    /\ out.op = "set_code" =>
         /\ out.tag = "Ok"
         /\ raw = inp.was.raw
         /\ size = inp.was.size

C10_Witness ==
  /\ out.op = "verify"
  /\ built = ECDSA_256k1
  /\ code = Ed25519
  /\ Len(sig) = SIGNATURE_LENGTH
  /\ IsErr

\* the three high bits of the last byte of a signature, as flip positions
HighBits == (8 * SIGNATURE_LENGTH - 3)..(8 * SIGNATURE_LENGTH - 1)

\* C3 as stated: under an Ed25519 code, the signature of the message
\* verifies, a flip of any one bit of the signature or of the message gives
\* Ok(false), and the empty signature gives an error.
C3_AnyFlipIsFalse ==
  (out.op = "verify" /\ code \in Ed25519Codes) =>
    CASE inp.kind = "signed" -> IsOk(TRUE)
      [] inp.kind = "sigflip" -> IsOk(FALSE)
      [] inp.kind = "msgflip" -> IsOk(FALSE)
      [] inp.kind = "sigshort" /\ inp.n = 0 -> IsErr
      [] OTHER -> TRUE

\* C3 as amended: a flip of one of the three high bits of the signature's
\* last byte gives an error (the signature no longer parses); a flip of any
\* other bit of the signature, or of any bit of the message, gives
\* Ok(false).
C3_Ed25519 ==
  (out.op = "verify" /\ code \in Ed25519Codes) =>
    CASE inp.kind = "signed" -> IsOk(TRUE)
      [] inp.kind = "sigflip" ->
           IF inp.n \in HighBits THEN IsErr /\ out.err = "AlgorithmInputError"
           ELSE IsOk(FALSE)
      [] inp.kind = "msgflip" -> IsOk(FALSE)
      [] inp.kind = "sigshort" /\ inp.n = 0 -> IsErr
      [] OTHER -> TRUE

C3_Witness ==
  /\ out.op = "verify"
  /\ code = Ed25519
  /\ inp.kind = "sigflip"
  /\ inp.n = 8 * SIGNATURE_LENGTH - 1
  /\ Len(ser) = MaxMsgLen
  /\ IsErr

\* C4 as stated: under an ECDSA code, the signature of the message
\* verifies, a well-formed signature or a message that does not match gives
\* Ok(false), and a too-short message or signature gives an error.
C4_ShortIsError ==
  (out.op = "verify" /\ code \in EcdsaCodes) =>
    CASE inp.kind = "signed" -> IsOk(TRUE)
      [] inp.kind \in {"sigflip", "othersig"} /\ Signature_try_from(sig) -> IsOk(FALSE)
      [] inp.kind = "msgflip" -> IsOk(FALSE)
      [] inp.kind = "msgshort" -> IsErr
      [] inp.kind = "sigshort" -> IsErr
      [] OTHER -> TRUE

\* C4 as amended: a too-short message is a message that does not match and
\* gives Ok(false); only a malformed signature gives an error.
C4_Ecdsa ==
  (out.op = "verify" /\ code \in EcdsaCodes) =>
    CASE inp.kind = "signed" -> IsOk(TRUE)
      [] inp.kind \in {"sigflip", "othersig"} ->
           IF Signature_try_from(sig) THEN IsOk(FALSE) ELSE IsErr
      [] inp.kind = "msgflip" -> IsOk(FALSE)
      [] inp.kind = "msgshort" -> IsOk(FALSE)
      [] inp.kind = "sigshort" -> IsErr /\ out.err = "AlgorithmInputError"
      [] OTHER -> TRUE

C4_Witness ==
  /\ out.op = "verify"
  /\ code = ECDSA_256k1
  /\ inp.kind = "msgshort"
  /\ Len(ser) < MaxMsgLen
  /\ Signature_try_from(sig)
  /\ IsOk(FALSE)

\* C9: a verify call leaves code, raw and size as they are, and returns
\* what an earlier call with the same code, raw, signature and message
\* returned, whatever calls and setters ran in between and whichever
\* callers are inside verify meanwhile.
C9_PureRead ==
  [][/\ busy' # busy => UNCHANGED <<code, raw, size>>
     /\ (/\ out'.op = "verify"
         /\ memo'.set
         /\ memo'.code = code'
         /\ memo'.raw = raw'
         /\ memo'.sig = sig'
         /\ memo'.ser = ser')
          => Verified(memo'.res) = out']_vars

C9_Witness ==
  /\ out.op = "verify"
  /\ memo.set
  /\ memo.code = code
  /\ memo.raw = raw
  /\ memo.sig = sig
  /\ memo.ser = ser
  /\ memo.size # size
  /\ IsOk(TRUE)
  /\ \E c \in Callers : busy[c].on

=============================================================================
